---------------------------- MODULE Spec2Model ----------------------------
(***************************************************************************)
(* A model of class_concepts.py: a flat script of independent teaching     *)
(* vignettes (small classes) and a demonstration routine, main().          *)
(*                                                                         *)
(* The module is first loaded (the class statements run top to bottom and  *)
(* bind the module's global names), then one vignette is exercised.  The   *)
(* variable `vignette` names the vignette a behaviour exercises; the       *)
(* vignettes share no state except the module's global names.              *)
(*                                                                         *)
(* Python strings are sequences of one-character strings.  A call's        *)
(* outcome is a record [exc, ret]: exc = "none" when the call returned.    *)
(***************************************************************************)
EXTENDS Integers, Sequences, FiniteSets, TLC

VARIABLES
    vignette,   \* the vignette this behaviour exercises
    loadpc,     \* position of the module's top-level code
    binding,    \* the class the global name Counter is bound to
    student,    \* the Student object (section 1)
    counter,    \* the Counter classes and their instances (sections 2, 19)
    db,         \* the singleton decorator's closure and its DatabaseConnection (17)
    product,    \* the Product object (18)
    age,        \* the last check_age call (20)
    logger,     \* the Logger object and its file object (6)
    fs,         \* the file system: whether log.txt exists
    mainpc,     \* position of main() in its block "6. Constructors and Destructors"
    temp,       \* the last calls of TemperatureConverter's conversions (12)
    countdown,  \* the Countdown object (21)
    crange,     \* the CustomRange object and its current iterator (21)
    circle,     \* the Circle object (18)
    car         \* the CarWithEngine object and its Engine (13)

vars == <<vignette, loadpc, binding, student, counter, db, product, age,
          logger, fs, mainpc, temp, countdown, crange, circle, car>>

\* what the module load and each vignette leave alone
LoadFrame == UNCHANGED <<vignette, student, db, product, age, logger, fs, mainpc, temp, countdown, crange, circle, car>>
StudentFrame == UNCHANGED <<vignette, loadpc, binding, counter, db, product, age, logger, fs, mainpc, temp, countdown, crange, circle, car>>
CounterFrame == UNCHANGED <<vignette, loadpc, binding, student, db, product, age, logger, fs, mainpc, temp, countdown, crange, circle, car>>
DbFrame == UNCHANGED <<vignette, loadpc, binding, student, counter, product, age, logger, fs, mainpc, temp, countdown, crange, circle, car>>
ProductFrame == UNCHANGED <<vignette, loadpc, binding, student, counter, db, age, logger, fs, mainpc, temp, countdown, crange, circle, car>>
AgeFrame == UNCHANGED <<vignette, loadpc, binding, student, counter, db, product, logger, fs, mainpc, temp, countdown, crange, circle, car>>
LoggerFrame == UNCHANGED <<vignette, loadpc, binding, student, counter, db, product, age, mainpc, temp, countdown, crange, circle, car>>
MainLoggerFrame == UNCHANGED <<vignette, loadpc, binding, student, counter, db, product, age, temp, countdown, crange, circle, car>>
TempFrame == UNCHANGED <<vignette, loadpc, binding, student, counter, db, product, age, logger, fs, mainpc, countdown, crange, circle, car>>
CountdownFrame == UNCHANGED <<vignette, loadpc, binding, student, counter, db, product, age, logger, fs, mainpc, temp, crange, circle, car>>
CircleFrame == UNCHANGED <<vignette, loadpc, binding, student, counter, db, product, age, logger, fs, mainpc, temp, countdown, crange, car>>
CarFrame == UNCHANGED <<vignette, loadpc, binding, student, counter, db, product, age, logger, fs, mainpc, temp, countdown, crange, circle>>
RangeFrame == UNCHANGED <<vignette, loadpc, binding, student, counter, db, product, age, logger, fs, mainpc, temp, countdown, circle, car>>

-----------------------------------------------------------------------------
(* Bounds of the model *)

\* longest name given to a Student
MaxNameLen == 2
\* marks range over -MaxMarks .. MaxMarks
MaxMarks == 12
\* most Counter() constructions in one behaviour
MaxCounters == 4
\* most DatabaseConnection(...) calls in one behaviour
MaxDbCalls == 3
\* prices assigned range over -MaxPrice .. MaxPrice
MaxPrice == 3
\* most assignments to Product.price in one behaviour
MaxAssign == 3
\* ages checked range over 18 - AgeSpan .. 18 + AgeSpan
AgeSpan == 20
\* most lines written through one Logger
MaxLogLines == 2
\* most destroy() calls on one Logger
MaxDestroys == 3
\* Celsius temperatures converted range over -MaxCelsius .. MaxCelsius
MaxCelsius == 5
\* Fahrenheit temperatures converted range over -MaxFahrenheit .. MaxFahrenheit
MaxFahrenheit == 34
\* Countdown starts range over -2 .. MaxCountdown
MaxCountdown == 4
\* most StopIteration raised by one iterator
MaxStops == 2
\* CustomRange start and stop range over -MaxRange .. MaxRange
MaxRange == 3
\* CustomRange step ranges over -MaxStep .. MaxStep
MaxStep == 3
\* Circle radius and diameter values range over -MaxRadius .. MaxRadius
MaxRadius == 3
\* most assignments to one Circle
MaxCircleOps == 2
\* a car's speed stays within -MaxSpeed .. MaxSpeed
MaxSpeed == 3
\* accelerate() amounts range over -MaxAmount .. MaxAmount
MaxAmount == 2

-----------------------------------------------------------------------------
(* Python values shared by the vignettes *)

\* A call's outcome: exc is "none" when the call returned ret, the exception's
\* name when it raised (ret is then a placeholder of ret's type), and
\* "not called" before the call.
Returned(v) == [exc |-> "none", ret |-> v]
Raised(e, placeholder) == [exc |-> e, ret |-> placeholder]
NotCalled(placeholder) == [exc |-> "not called", ret |-> placeholder]

DigitChar(d) == <<"0", "1", "2", "3", "4", "5", "6", "7", "8", "9">>[d + 1]

RECURSIVE Digits(_)
Digits(n) == IF n < 10 THEN <<DigitChar(n)>>
             ELSE Digits(n \div 10) \o <<DigitChar(n % 10)>>

\* str() of an int, as an f-string field formats it
IntToStr(n) == IF n < 0 THEN <<"-">> \o Digits(-n) ELSE Digits(n)

-----------------------------------------------------------------------------
(* 1. Student *)

Student_init(self, name, marks) == [self EXCEPT !.name = name, !.marks = marks]

Student_display_NoMarks(self) ==
    <<"S", "t", "u", "d", "e", "n", "t", ":", " ">> \o self.name
        \o <<",", " ", "M", "a", "r", "k", "s", ":", " ">>

\* f"Student: {self.name}, Marks: {self.marks}"
Student_display(self) ==
    <<"S", "t", "u", "d", "e", "n", "t", ":", " ">> \o self.name
        \o <<",", " ", "M", "a", "r", "k", "s", ":", " ">> \o IntToStr(self.marks)

-----------------------------------------------------------------------------
(* 2 and 19. The two classes named Counter *)

\* the names each class body defines
ClassAttrs(cls) ==
    CASE cls = "Counter@30" -> {"count", "__init__", "get_count"}
      [] cls = "Counter@628" -> {"__init__", "__call__", "get_values", "reset"}
      [] OTHER -> {}

\* Counter(): the global name is looked up when the call runs
Counter_init(c, cls) ==
    IF cls = "Counter@30"
    THEN [c EXCEPT !.count30 = @ + 1, !.made = @ + 1]
    ELSE [c EXCEPT !.instances = Append(@, [count |-> 0, values |-> <<>>]),
                   !.made = @ + 1]

\* Counter.get_count(): an attribute lookup on the class the name is bound to
Counter_get_count(c, cls) ==
    IF "get_count" \in ClassAttrs(cls)
    THEN Returned(c.count30)
    ELSE Raised("AttributeError", 0)

-----------------------------------------------------------------------------
(* 6. Logger *)

\* open("log.txt", "a"): creates the file when it does not exist; `opened` is
\* whether the operating system lets the file be opened, `created` remembers
\* that this program created the file
open_append(files, opened) ==
    IF opened
    THEN [files EXCEPT !.exists = TRUE, !.created = @ \/ ~files.exists]
    ELSE files

\* file.close(): closing a closed file does nothing
File_close(self) == [self EXCEPT !.closed = TRUE]

\* Logger(): when open() raises, the object is left without a log_file
Logger_init(self, opened) ==
    IF opened
    THEN [self EXCEPT !.state = "live", !.has_log_file = TRUE, !.closed = FALSE,
                      !.lastop = "__init__", !.exc = "none"]
    ELSE [self EXCEPT !.state = "failed", !.lastop = "__init__", !.exc = "OSError"]

\* log(message): writing to a closed file raises ValueError
Logger_log(self) ==
    IF self.closed
    THEN [self EXCEPT !.lastop = "log", !.exc = "ValueError"]
    ELSE [self EXCEPT !.lastop = "log", !.exc = "none", !.written = @ + 1]

\* a destroy() that only announces the cleanup
Logger_destroy_NoClose(self) ==
    [self EXCEPT !.lastop = "destroy", !.exc = "none", !.destroys = @ + 1]

\* destroy()
Logger_destroy(self) ==
    [(IF self.has_log_file THEN File_close(self) ELSE self) EXCEPT
        !.lastop = "destroy", !.exc = "none", !.destroys = @ + 1]

\* __del__(), run when the object is finalized
Logger_del(self) ==
    [(IF self.has_log_file THEN File_close(self) ELSE self) EXCEPT
        !.state = "finalized", !.lastop = "__del__", !.exc = "none"]

-----------------------------------------------------------------------------
(* 12. TemperatureConverter *)

\* The conversions use true division, so their values are fractions: a value
\* is [num, den] in lowest terms with den > 0.  (Python computes them as
\* floats; a fraction is the exact value the float rounds.)
Abs(n) == IF n < 0 THEN 0 - n ELSE n

RECURSIVE GCD(_, _)
GCD(a, b) == IF b = 0 THEN a ELSE GCD(b, a % b)

Frac(n, d) ==
    LET g == GCD(Abs(n), Abs(d))
        sign == IF d < 0 THEN 0 - 1 ELSE 1
    IN  [num |-> (sign * n) \div g, den |-> (sign * d) \div g]

FromInt(n) == Frac(n, 1)
FracAdd(x, y) == Frac(x.num * y.den + y.num * x.den, x.den * y.den)
FracSub(x, y) == Frac(x.num * y.den - y.num * x.den, x.den * y.den)
FracMul(x, y) == Frac(x.num * y.num, x.den * y.den)
FracDiv(x, y) == Frac(x.num * y.den, x.den * y.num)

\* the offset added before the scaling
celsius_to_fahrenheit_Parens(c) ==
    FracDiv(FracMul(FracAdd(FromInt(c), FromInt(32)), FromInt(9)), FromInt(5))

\* (c * 9/5) + 32
celsius_to_fahrenheit(c) ==
    FracAdd(FracDiv(FracMul(FromInt(c), FromInt(9)), FromInt(5)), FromInt(32))

\* (f - 32) * 5/9
fahrenheit_to_celsius(f) ==
    FracDiv(FracMul(FracSub(FromInt(f), FromInt(32)), FromInt(5)), FromInt(9))

-----------------------------------------------------------------------------
(* 13. Engine and CarWithEngine *)

Engine_init(capacity, fuel_type) ==
    [capacity |-> capacity, fuel_type |-> fuel_type, running |-> FALSE]

Engine_start(self) == [self EXCEPT !.running = TRUE]

Engine_stop(self) == [self EXCEPT !.running = FALSE]

CarWithEngine_init(self, brand, engine_capacity, fuel_type) ==
    [self EXCEPT !.brand = brand,
                 !.engine = Engine_init(engine_capacity, fuel_type),
                 !.speed = 0]

\* start_engine(); `said` is the kind of message returned
CarWithEngine_start_engine(self) ==
    [self EXCEPT !.engine = Engine_start(@), !.said = "Engine started"]

CarWithEngine_stop_engine(self) ==
    [self EXCEPT !.engine = Engine_stop(@), !.said = "Engine stopped"]

\* an accelerate() that does not look at the engine
CarWithEngine_accelerate_NoCheck(self, amount) ==
    [self EXCEPT !.speed = @ + amount, !.said = "accelerating"]

\* accelerate(amount)
CarWithEngine_accelerate(self, amount) ==
    IF self.engine.running
    THEN [self EXCEPT !.speed = @ + amount, !.said = "accelerating"]
    ELSE [self EXCEPT !.said = "Cannot accelerate. Engine is not running."]

-----------------------------------------------------------------------------
(* 17. singleton and DatabaseConnection *)

DatabaseConnection_init(host, user, password) ==
    [host |-> host, user |-> user, password |-> password]

\* a decorator that constructs on every call
get_instance_NoCache(d, host, user, password) ==
    [d EXCEPT !.heap = Append(@, DatabaseConnection_init(host, user, password)),
              !.cached = TRUE,
              !.instance = Len(d.heap) + 1,
              !.returned = Len(d.heap) + 1]

\* get_instance(*args, **kwargs) of singleton(DatabaseConnection): `cached` is
\* `cls in instances`, `instance` is instances[cls], an index into the heap of
\* DatabaseConnection objects
get_instance(d, host, user, password) ==
    LET d1 == IF ~d.cached
              THEN [d EXCEPT
                      !.heap = Append(@, DatabaseConnection_init(host, user, password)),
                      !.cached = TRUE,
                      !.instance = Len(d.heap) + 1]
              ELSE d
    IN  [d1 EXCEPT !.returned = d1.instance]

-----------------------------------------------------------------------------
(* 18. Product *)

Product_init(self) == [self EXCEPT !.price = 0]

\* a setter that stores before it validates
Product_price_set_NoCheck(self, value) == [self EXCEPT !.price = value]

\* @price.setter
Product_price_set(self, value) ==
    IF value < 0
    THEN [self EXCEPT !.said = "Price cannot be negative"]
    ELSE [self EXCEPT !.price = value]

-----------------------------------------------------------------------------
(* 18. Circle *)

\* Circle(radius): stores the argument in _radius directly
Circle_init(self, radius) == [self EXCEPT !.radius = radius, !.exc = "none"]

\* @radius.setter; value is a fraction
Circle_radius_set(self, value) ==
    IF value.num <= 0
    THEN [self EXCEPT !.exc = "ValueError"]
    ELSE [self EXCEPT !.radius = value, !.exc = "none"]

\* @property diameter
Circle_diameter(self) == FracMul(FromInt(2), self.radius)

\* @diameter.setter: self.radius = value / 2
Circle_diameter_set(self, value) ==
    Circle_radius_set(self, FracDiv(value, FromInt(2)))

-----------------------------------------------------------------------------
(* 20. InvalidAgeError and check_age *)

InvalidAgeError_init(a) == [age |-> a, message |-> "Age must be 18 or older"]

\* a check that turns 18 away
check_age_Off(a) ==
    IF a <= 18
    THEN [exc |-> "InvalidAgeError", ret |-> FALSE, error |-> <<InvalidAgeError_init(a)>>]
    ELSE [exc |-> "none", ret |-> TRUE, error |-> <<>>]

\* the outcome of check_age(a); error holds the raised exception object
check_age(a) ==
    IF a < 18
    THEN [exc |-> "InvalidAgeError", ret |-> FALSE, error |-> <<InvalidAgeError_init(a)>>]
    ELSE [exc |-> "none", ret |-> TRUE, error |-> <<>>]

-----------------------------------------------------------------------------
(* 21. Countdown, CustomRange and CustomRangeIterator *)

Countdown_init(self, start) == [self EXCEPT !.start = start]

\* a countdown that stops above zero
Countdown_next_StopsAtOne(self) ==
    IF self.start > 0
    THEN [self EXCEPT !.out = Append(@, self.start), !.start = @ - 1]
    ELSE [self EXCEPT !.stops = @ + 1]

\* __next__: `out` collects the values returned, `stops` counts the
\* StopIteration raised
Countdown_next(self) ==
    IF self.start >= 0
    THEN [self EXCEPT !.out = Append(@, self.start), !.start = @ - 1]
    ELSE [self EXCEPT !.stops = @ + 1]

CustomRange_init(self, start, stop, step) ==
    [self EXCEPT !.start = start, !.stop = stop, !.step = step]

\* CustomRangeIterator(start, stop, step)
CustomRangeIterator_init(it, start, stop, step) ==
    [it EXCEPT !.current = start, !.stop = stop, !.step = step]

\* __iter__ of CustomRange: a new iterator each time
CustomRange_iter(self, it) ==
    CustomRangeIterator_init(it, self.start, self.stop, self.step)

\* an iterator that includes its stop value when counting up
CustomRangeIterator_next_Inclusive(it) ==
    IF (it.step > 0 /\ it.current <= it.stop) \/ (it.step < 0 /\ it.current > it.stop)
    THEN [it EXCEPT !.out = Append(@, it.current), !.current = @ + it.step]
    ELSE [it EXCEPT !.stops = @ + 1]

\* __next__ of CustomRangeIterator
CustomRangeIterator_next(it) ==
    IF (it.step > 0 /\ it.current < it.stop) \/ (it.step < 0 /\ it.current > it.stop)
    THEN [it EXCEPT !.out = Append(@, it.current), !.current = @ + it.step]
    ELSE [it EXCEPT !.stops = @ + 1]

-----------------------------------------------------------------------------
(* Input domains *)

NameChars == {"A", "9", ","}

RECURSIVE StringsUpTo(_)
StringsUpTo(n) ==
    IF n = 0 THEN {<<>>}
    ELSE LET shorter == StringsUpTo(n - 1)
         IN  shorter \cup {Append(s, ch) : s \in shorter, ch \in NameChars}

Names == StringsUpTo(MaxNameLen)
Marks == (0 - MaxMarks) .. MaxMarks

Hosts == {"db1", "db2"}
Users == {"root", "guest"}
Passwords == {"pw1", "pw2"}
Prices == (0 - MaxPrice) .. MaxPrice
Ages == (18 - AgeSpan) .. (18 + AgeSpan)

CelsiusTemps == (0 - MaxCelsius) .. MaxCelsius
FahrenheitTemps == (0 - MaxFahrenheit) .. MaxFahrenheit
CountdownStarts == (0 - 2) .. MaxCountdown
RangeEnds == (0 - MaxRange) .. MaxRange
RangeSteps == (0 - MaxStep) .. MaxStep
Radii == (0 - MaxRadius) .. MaxRadius
Brands == {"Toyota", "Tesla"}
Capacities == {2, 3}
FuelTypes == {"gasoline", "diesel"}
Amounts == (0 - MaxAmount) .. MaxAmount

Vignettes == {"Student", "Counter", "DatabaseConnection", "Product", "check_age",
              "Logger", "main", "TemperatureConverter", "Countdown", "CustomRange",
              "Circle", "CarWithEngine"}

-----------------------------------------------------------------------------
(* Initial state: nothing loaded, nothing constructed *)

Init ==
    /\ vignette \in Vignettes
    /\ loadpc = "start"
    /\ binding = "unbound"
    /\ student = [made |-> FALSE, name |-> <<>>, marks |-> 0,
                  argName |-> <<>>, argMarks |-> 0, shown |-> NotCalled(<<>>)]
    /\ counter = [count30 |-> 0, made |-> 0, instances |-> <<>>,
                  result |-> NotCalled(0)]
    /\ db = [cached |-> FALSE, instance |-> 0, heap |-> <<>>, returned |-> 0,
             calls |-> 0, first |-> DatabaseConnection_init("", "", "")]
    /\ product = [made |-> FALSE, price |-> 0, said |-> "", assigned |-> <<>>]
    /\ age = [arg |-> 0, out |-> [exc |-> "not called", ret |-> FALSE, error |-> <<>>]]
    /\ logger = [state |-> "none", has_log_file |-> FALSE, closed |-> FALSE,
                 destroys |-> 0, written |-> 0, lastop |-> "none", exc |-> "none"]
    /\ fs \in {[exists |-> e, created |-> FALSE] : e \in BOOLEAN}
    /\ mainpc = "774"
    /\ temp = [c2fCalled |-> FALSE, c |-> 0, fahrenheit |-> FromInt(0),
               f2cCalled |-> FALSE, f |-> 0, celsius |-> FromInt(0)]
    /\ countdown = [made |-> FALSE, arg |-> 0, start |-> 0, out |-> <<>>, stops |-> 0]
    /\ crange = [made |-> FALSE, start |-> 0, stop |-> 0, step |-> 0,
                 iter |-> [made |-> FALSE, current |-> 0, stop |-> 0, step |-> 0,
                           out |-> <<>>, stops |-> 0]]
    /\ circle = [made |-> FALSE, radius |-> FromInt(0), exc |-> "none",
                 before |-> FromInt(0), ops |-> 0]
    /\ car = [made |-> FALSE, brand |-> "", engine |-> Engine_init(0, ""),
              speed |-> 0, said |-> "", lastop |-> "none", amount |-> 0,
              before |-> [speed |-> 0, engine |-> Engine_init(0, "")]]

-----------------------------------------------------------------------------
(* Module load *)

\* class Counter at line 30: binds the name, count = 0
LoadCounter30 ==
    /\ loadpc = "start"
    /\ loadpc' = "after30"
    /\ binding' = "Counter@30"
    /\ counter' = [counter EXCEPT !.count30 = 0]
    /\ LoadFrame

\* class Counter at line 628: binds the same name again
LoadCounter628 ==
    /\ loadpc = "after30"
    /\ loadpc' = "loaded"
    /\ binding' = "Counter@628"
    /\ UNCHANGED counter
    /\ LoadFrame

-----------------------------------------------------------------------------
(* Actions of the vignettes *)

NewStudent ==
    /\ loadpc = "loaded" /\ vignette = "Student"
    /\ ~student.made
    /\ \E name \in Names, marks \in Marks :
          student' = [Student_init(student, name, marks) EXCEPT
                          !.made = TRUE, !.argName = name, !.argMarks = marks]
    /\ StudentFrame

StudentDisplay ==
    /\ loadpc = "loaded" /\ vignette = "Student"
    /\ student.made
    /\ student' = [student EXCEPT !.shown = Returned(Student_display(student))]
    /\ StudentFrame

NewCounter ==
    /\ loadpc = "loaded" /\ vignette = "Counter"
    /\ counter.made < MaxCounters
    /\ counter.result.exc = "not called"
    /\ counter' = Counter_init(counter, binding)
    /\ CounterFrame

CounterGetCount ==
    /\ loadpc = "loaded" /\ vignette = "Counter"
    /\ counter.result.exc = "not called"
    /\ counter' = [counter EXCEPT !.result = Counter_get_count(counter, binding)]
    /\ CounterFrame

\* DatabaseConnection(host, user, password); `first` remembers the first call's
\* arguments
CallDatabaseConnection ==
    /\ loadpc = "loaded" /\ vignette = "DatabaseConnection"
    /\ db.calls < MaxDbCalls
    /\ \E host \in Hosts, user \in Users, password \in Passwords :
          db' = [get_instance(db, host, user, password) EXCEPT
                    !.calls = @ + 1,
                    !.first = IF db.calls = 0
                              THEN DatabaseConnection_init(host, user, password)
                              ELSE @]
    /\ DbFrame

NewProduct ==
    /\ loadpc = "loaded" /\ vignette = "Product"
    /\ ~product.made
    /\ product' = [Product_init(product) EXCEPT !.made = TRUE]
    /\ ProductFrame

\* product.price = value; `assigned` remembers the values assigned
SetPrice ==
    /\ loadpc = "loaded" /\ vignette = "Product"
    /\ product.made
    /\ Len(product.assigned) < MaxAssign
    /\ \E value \in Prices :
          product' = [Product_price_set(product, value) EXCEPT
                         !.assigned = Append(@, value)]
    /\ ProductFrame

CheckAge ==
    /\ loadpc = "loaded" /\ vignette = "check_age"
    /\ \E a \in Ages : age' = [arg |-> a, out |-> check_age(a)]
    /\ AgeFrame

\* logger = Logger()
NewLogger ==
    /\ loadpc = "loaded" /\ vignette = "Logger"
    /\ logger.state = "none"
    /\ \E opened \in BOOLEAN :
          /\ fs' = open_append(fs, opened)
          /\ logger' = Logger_init(logger, opened)
    /\ LoggerFrame

LoggerLog ==
    /\ loadpc = "loaded" /\ vignette = "Logger"
    /\ logger.state = "live"
    /\ logger.written < MaxLogLines
    /\ logger' = Logger_log(logger)
    /\ UNCHANGED fs
    /\ LoggerFrame

LoggerDestroy ==
    /\ loadpc = "loaded" /\ vignette = "Logger"
    /\ logger.state = "live"
    /\ logger.destroys < MaxDestroys
    /\ logger' = Logger_destroy(logger)
    /\ UNCHANGED fs
    /\ LoggerFrame

\* the last reference goes away: a Logger whose constructor raised is
\* finalized too
LoggerFinalize ==
    /\ loadpc = "loaded" /\ vignette = "Logger"
    /\ logger.state \in {"live", "failed"}
    /\ logger' = Logger_del(logger)
    /\ UNCHANGED fs
    /\ LoggerFrame

\* main(), line 774: logger = Logger(); an OSError ends main()
MainNewLogger ==
    /\ loadpc = "loaded" /\ vignette = "main"
    /\ mainpc = "774"
    /\ \E opened \in BOOLEAN :
          /\ fs' = open_append(fs, opened)
          /\ logger' = Logger_init(logger, opened)
          /\ mainpc' = IF opened THEN "775" ELSE "raised"
    /\ MainLoggerFrame

\* main(), line 775: logger.destroy(); the block ends and line 777 is next
MainDestroyLogger ==
    /\ loadpc = "loaded" /\ vignette = "main"
    /\ mainpc = "775"
    /\ logger' = Logger_destroy(logger)
    /\ mainpc' = "777"
    /\ UNCHANGED fs
    /\ MainLoggerFrame

CelsiusToFahrenheit ==
    /\ loadpc = "loaded" /\ vignette = "TemperatureConverter"
    /\ \E c \in CelsiusTemps :
          temp' = [temp EXCEPT !.c2fCalled = TRUE, !.c = c,
                               !.fahrenheit = celsius_to_fahrenheit(c)]
    /\ TempFrame

FahrenheitToCelsius ==
    /\ loadpc = "loaded" /\ vignette = "TemperatureConverter"
    /\ \E f \in FahrenheitTemps :
          temp' = [temp EXCEPT !.f2cCalled = TRUE, !.f = f,
                               !.celsius = fahrenheit_to_celsius(f)]
    /\ TempFrame

\* Countdown(start); `arg` remembers the argument
NewCountdown ==
    /\ loadpc = "loaded" /\ vignette = "Countdown"
    /\ ~countdown.made
    /\ \E start \in CountdownStarts :
          countdown' = [Countdown_init(countdown, start) EXCEPT
                           !.made = TRUE, !.arg = start]
    /\ CountdownFrame

\* next(countdown)
CountdownNext ==
    /\ loadpc = "loaded" /\ vignette = "Countdown"
    /\ countdown.made
    /\ countdown.stops < MaxStops
    /\ countdown' = Countdown_next(countdown)
    /\ CountdownFrame

NewCustomRange ==
    /\ loadpc = "loaded" /\ vignette = "CustomRange"
    /\ ~crange.made
    /\ \E start \in RangeEnds, stop \in RangeEnds, step \in RangeSteps :
          crange' = [CustomRange_init(crange, start, stop, step) EXCEPT !.made = TRUE]
    /\ RangeFrame

\* iter(custom_range): the model follows the newest iterator
CustomRangeIter ==
    /\ loadpc = "loaded" /\ vignette = "CustomRange"
    /\ crange.made
    /\ crange' = [crange EXCEPT
                     !.iter = [CustomRange_iter(crange, crange.iter) EXCEPT
                                  !.made = TRUE, !.out = <<>>, !.stops = 0]]
    /\ RangeFrame

\* next(iterator)
CustomRangeNext ==
    /\ loadpc = "loaded" /\ vignette = "CustomRange"
    /\ crange.iter.made
    /\ crange.iter.stops < MaxStops
    /\ crange' = [crange EXCEPT !.iter = CustomRangeIterator_next(crange.iter)]
    /\ RangeFrame

\* Circle(radius)
NewCircle ==
    /\ loadpc = "loaded" /\ vignette = "Circle"
    /\ ~circle.made
    /\ \E radius \in Radii :
          circle' = [Circle_init(circle, FromInt(radius)) EXCEPT !.made = TRUE]
    /\ CircleFrame

\* circle.radius = value; `before` remembers the radius before the assignment
SetRadius ==
    /\ loadpc = "loaded" /\ vignette = "Circle"
    /\ circle.made
    /\ circle.ops < MaxCircleOps
    /\ \E value \in Radii :
          circle' = [Circle_radius_set(circle, FromInt(value)) EXCEPT
                        !.before = circle.radius, !.ops = @ + 1]
    /\ CircleFrame

\* circle.diameter = value
SetDiameter ==
    /\ loadpc = "loaded" /\ vignette = "Circle"
    /\ circle.made
    /\ circle.ops < MaxCircleOps
    /\ \E value \in Radii :
          circle' = [Circle_diameter_set(circle, FromInt(value)) EXCEPT
                        !.before = circle.radius, !.ops = @ + 1]
    /\ CircleFrame

\* CarWithEngine(brand, engine_capacity, fuel_type)
NewCar ==
    /\ loadpc = "loaded" /\ vignette = "CarWithEngine"
    /\ ~car.made
    /\ \E brand \in Brands, capacity \in Capacities, fuel \in FuelTypes :
          car' = [CarWithEngine_init(car, brand, capacity, fuel) EXCEPT !.made = TRUE]
    /\ CarFrame

\* car.start_engine(); `before` remembers the speed and engine before the call
CarStartEngine ==
    /\ loadpc = "loaded" /\ vignette = "CarWithEngine"
    /\ car.made
    /\ car' = [CarWithEngine_start_engine(car) EXCEPT
                  !.lastop = "start_engine",
                  !.before = [speed |-> car.speed, engine |-> car.engine]]
    /\ CarFrame

CarStopEngine ==
    /\ loadpc = "loaded" /\ vignette = "CarWithEngine"
    /\ car.made
    /\ car' = [CarWithEngine_stop_engine(car) EXCEPT
                  !.lastop = "stop_engine",
                  !.before = [speed |-> car.speed, engine |-> car.engine]]
    /\ CarFrame

\* car.accelerate(amount), while the speed stays within the model's range
CarAccelerate ==
    /\ loadpc = "loaded" /\ vignette = "CarWithEngine"
    /\ car.made
    /\ \E amount \in Amounts :
          /\ car.speed + amount \in (0 - MaxSpeed) .. MaxSpeed
          /\ car' = [CarWithEngine_accelerate(car, amount) EXCEPT
                        !.lastop = "accelerate",
                        !.amount = amount,
                        !.before = [speed |-> car.speed, engine |-> car.engine]]
    /\ CarFrame

Next ==
    \/ LoadCounter30
    \/ LoadCounter628
    \/ NewStudent
    \/ StudentDisplay
    \/ NewCounter
    \/ CounterGetCount
    \/ CallDatabaseConnection
    \/ NewProduct
    \/ SetPrice
    \/ CheckAge
    \/ NewLogger
    \/ LoggerLog
    \/ LoggerDestroy
    \/ LoggerFinalize
    \/ MainNewLogger
    \/ MainDestroyLogger
    \/ CelsiusToFahrenheit
    \/ FahrenheitToCelsius
    \/ NewCountdown
    \/ CountdownNext
    \/ NewCustomRange
    \/ CustomRangeIter
    \/ CustomRangeNext
    \/ NewCircle
    \/ SetRadius
    \/ SetDiameter
    \/ NewCar
    \/ CarStartEngine
    \/ CarStopEngine
    \/ CarAccelerate

Spec == Init /\ [][Next]_vars

-----------------------------------------------------------------------------
(* Properties *)

\* whether needle occurs in hay as a contiguous run
Contains(hay, needle) ==
    \E i \in 0 .. (Len(hay) - Len(needle)) :
        SubSeq(hay, i + 1, i + Len(needle)) = needle

RECURSIVE LastNonNegative(_)
LastNonNegative(values) ==
    IF values = <<>> THEN 0
    ELSE IF values[Len(values)] >= 0 THEN values[Len(values)]
    ELSE LastNonNegative(SubSeq(values, 1, Len(values) - 1))

\* C1: once the module is loaded, Counter.get_count() after n constructions of
\* Counter returns n (3 after the three constructions of main()).
C1_GetCountReturnsConstructions ==
    counter.result.exc # "not called" =>
        /\ counter.result.exc = "none"
        /\ counter.result.ret = counter.made

\* C2: every DatabaseConnection(...) call returns the instance the first call
\* created, the constructor has run exactly once, and host, user and password
\* are those of the first call.
C2_SingleInstance ==
    db.calls > 0 =>
        /\ db.returned = 1
        /\ Len(db.heap) = 1
        /\ db.heap[db.returned] = db.first

C2_Witness ==
    /\ db.calls = MaxDbCalls
    /\ db.first.host = "db1"
    /\ db.heap[1].host = "db1"

\* C3: a negative value assigned to Product.price is rejected and leaves the
\* stored price as it was, so the price is >= 0 and is the last non-negative
\* value assigned (0 if there was none).
C3_PriceIsLastNonNegative ==
    product.made =>
        /\ product.price >= 0
        /\ product.price = LastNonNegative(product.assigned)

C3_Witness ==
    /\ product.made
    /\ Len(product.assigned) = 2
    /\ product.assigned[1] > 0
    /\ product.assigned[2] < 0
    /\ product.price = product.assigned[1]
    /\ product.said = "Price cannot be negative"

\* C4: check_age(age) raises InvalidAgeError carrying the age exactly when
\* age < 18, and returns True for every age >= 18, 18 included.
C4_CheckAge ==
    age.out.exc # "not called" =>
        /\ (age.out.exc = "InvalidAgeError") <=> (age.arg < 18)
        /\ age.out.exc = "InvalidAgeError" =>
              /\ Len(age.out.error) = 1
              /\ age.out.error[1].age = age.arg
        /\ age.arg >= 18 => (age.out.exc = "none" /\ age.out.ret = TRUE)

C4_Witness ==
    /\ age.arg = 18
    /\ age.out.exc = "none"
    /\ age.out.ret = TRUE

\* C5: a Logger's log file is open from construction until destroy(); after
\* destroy() it is closed, and a later destroy() or the finalizer leaves it
\* closed and raises nothing.
C5_LogFileLifecycle ==
    /\ (logger.state = "live" /\ logger.destroys = 0) =>
            (logger.has_log_file /\ ~logger.closed)
    /\ logger.destroys > 0 => (logger.has_log_file /\ logger.closed)
    /\ (logger.destroys > 0 /\ logger.lastop \in {"destroy", "__del__"}) =>
            logger.exc = "none"

C5_Witness ==
    /\ vignette = "Logger"
    /\ logger.state = "finalized"
    /\ logger.destroys = 2
    /\ logger.written = 1
    /\ logger.closed

\* C6: the log file created when main() constructs the Logger is deleted
\* within the same block: once the block has finished, the file does not exist.
C6_LogFileDeletedAfterBlock ==
    (mainpc = "777" /\ fs.created) => ~fs.exists

\* C7: celsius_to_fahrenheit(0) is 32 and fahrenheit_to_celsius(32) is 0.
C7_FreezingPoint ==
    /\ (temp.c2fCalled /\ temp.c = 0) => temp.fahrenheit = [num |-> 32, den |-> 1]
    /\ (temp.f2cCalled /\ temp.f = 32) => temp.celsius = [num |-> 0, den |-> 1]

C7_Witness ==
    /\ temp.c2fCalled /\ temp.c = 0 /\ temp.fahrenheit.num = 32
    /\ temp.f2cCalled /\ temp.f = 32 /\ temp.celsius.num = 0

\* C8: Student(name, marks).display() returns a string that contains the name
\* and the marks as written, and leaves both fields as constructed.
C8_DisplayContainsFields ==
    student.shown.exc = "none" =>
        /\ Contains(student.shown.ret, student.argName)
        /\ Contains(student.shown.ret, IntToStr(student.argMarks))
        /\ student.name = student.argName
        /\ student.marks = student.argMarks

C8_Witness ==
    /\ student.shown.exc = "none"
    /\ student.argName = <<"A", ",">>
    /\ student.argMarks = -12
    /\ student.shown.ret =
          <<"S", "t", "u", "d", "e", "n", "t", ":", " ", "A", ",", ",", " ",
            "M", "a", "r", "k", "s", ":", " ", "-", "1", "2">>

IsPrefix(s, t) == Len(s) <= Len(t) /\ s = SubSeq(t, 1, Len(s))

\* n, n-1, ..., 0: empty when n < 0
Descending(n) == [i \in 1 .. (IF n < 0 THEN 0 ELSE n + 1) |-> n - i + 1]

\* C9: successive __next__ calls on Countdown(n) return n, n-1, ..., 0 in that
\* order (nothing when n < 0), then every call raises StopIteration.
C9_CountdownSequence ==
    countdown.made =>
        /\ IsPrefix(countdown.out, Descending(countdown.arg))
        /\ countdown.stops > 0 => countdown.out = Descending(countdown.arg)

C9_Witness ==
    /\ countdown.made
    /\ countdown.arg = 2
    /\ countdown.out = <<2, 1, 0>>
    /\ countdown.stops = 2

\* the length of the built-in range(start, stop, step), step # 0
RangeLen(start, stop, step) ==
    IF step > 0 /\ start < stop THEN (stop - start - 1) \div step + 1
    ELSE IF step < 0 /\ start > stop THEN (start - stop - 1) \div (0 - step) + 1
    ELSE 0

\* the built-in range(start, stop, step) as a sequence; nothing for step = 0
BuiltinRange(start, stop, step) ==
    IF step = 0 THEN <<>>
    ELSE [i \in 1 .. RangeLen(start, stop, step) |-> start + (i - 1) * step]

\* C10: iterating CustomRange(start, stop, step) yields the values of the
\* built-in range(start, stop, step) for step # 0 and nothing for step = 0,
\* and then stops.
C10_MatchesBuiltinRange ==
    crange.iter.made =>
        /\ IsPrefix(crange.iter.out,
                    BuiltinRange(crange.start, crange.stop, crange.step))
        /\ crange.iter.stops > 0 =>
              crange.iter.out = BuiltinRange(crange.start, crange.stop, crange.step)

C10_Witness ==
    /\ crange.iter.made
    /\ crange.start = 3 /\ crange.stop = -2 /\ crange.step = -2
    /\ crange.iter.out = <<3, 1, -1>>
    /\ crange.iter.stops = 1

\* C11: every Circle has a positive radius: construction and every assignment
\* to radius or diameter either leave radius > 0 with diameter = 2 * radius,
\* or raise ValueError and leave the radius as it was.
C11_RadiusAlwaysPositive ==
    circle.made =>
        /\ circle.radius.num > 0
        /\ Circle_diameter(circle) = FracAdd(circle.radius, circle.radius)
        /\ (circle.ops > 0 /\ circle.exc = "ValueError") =>
              circle.radius = circle.before

\* C12: accelerate(amount) adds exactly amount to the speed while the engine
\* is running; with the engine off it returns the refusal and leaves speed
\* and engine alone.  start_engine and stop_engine change only the engine's
\* running flag.
C12_AccelerateOnlyWhileRunning ==
    car.made =>
        /\ car.lastop = "accelerate" =>
              /\ car.engine = car.before.engine
              /\ IF car.before.engine.running
                 THEN /\ car.speed = car.before.speed + car.amount
                      /\ car.said = "accelerating"
                 ELSE /\ car.speed = car.before.speed
                      /\ car.said = "Cannot accelerate. Engine is not running."
        /\ car.lastop = "start_engine" =>
              /\ car.speed = car.before.speed
              /\ car.engine = [car.before.engine EXCEPT !.running = TRUE]
        /\ car.lastop = "stop_engine" =>
              /\ car.speed = car.before.speed
              /\ car.engine = [car.before.engine EXCEPT !.running = FALSE]

C12_Witness ==
    /\ car.made
    /\ car.lastop = "accelerate"
    /\ car.amount = 1
    /\ ~car.engine.running
    /\ car.before.speed = 2
    /\ car.speed = 2
    /\ car.said = "Cannot accelerate. Engine is not running."

=============================================================================
